---- MODULE Spec2Model ----
(***************************************************************************)
(* Model of UnitSelectorData (unit_selector_prototype_v3.py): the          *)
(* construction of the disjuncts and of the exactly-one disjunction, the   *)
(* relocation of the candidate units, the selector port states and         *)
(* connectors, the arcs between selector ports and unit ports, and the     *)
(* initialization loop.                                                    *)
(*                                                                         *)
(* A Pyomo block is modelled by the names it holds.  getattr of a name a   *)
(* block does not hold raises AttributeError; Block.add_component of a    *)
(* name the block already holds raises RuntimeError; assigning a component *)
(* to an attribute that already is a component replaces it.  An exception  *)
(* ends the running method and leaves every change made so far in place.   *)
(***************************************************************************)
EXTENDS Integers, Sequences, FiniteSets, TLC

\* Largest number of candidate units in config.unit_disjunct.
MaxN == 3
\* Largest number of declared inlet (outlet) indices.
MaxK == 2
\* Largest number of calls of build on one selector.
MaxBuilds == 2

VARIABLES
    config,   \* self.config: the arguments given at construction
    sel,      \* the selector and the objects it reaches
    phase,    \* "new", "built", "build_failed", "initialized", "init_failed"
    builds,   \* number of calls of build so far
    log       \* what the last call of initialize did, in order

vars == <<config, sel, phase, builds, log>>

----------------------------------------------------------------------------
(* Objects *)

\* A unit that is in the flowsheet but never on the candidate list.
OutsideUnit == MaxN + 1

UnitIds == 1..OutsideUnit

Directions == {"inlet", "outlet"}

\* A Port of a unit model.
UnitPort(u, dir, k) == [kind |-> "unit", of |-> u, dir |-> dir, k |-> k]

\* The Port inlet_<k> / outlet_<k> of the selector, backed by <name>_state.
SelectorPort(dir, k) == [kind |-> "selector", of |-> 0, dir |-> dir, k |-> k]

AllPorts ==
    {SelectorPort(d, k) : d \in Directions, k \in 1..MaxK}
        \cup {UnitPort(u, d, k) : u \in UnitIds, d \in Directions, k \in 1..MaxK}

\* Blocks that can own a unit: the flowsheet, no block at all, or the
\* Disjunct unit_disjunct_<idx> of the gen-th selector_block.
Flowsheet == [gen |-> 0, idx |-> 0]
NoBlock == [gen |-> 0, idx |-> -1]
Disjunct(gen, idx) == [gen |-> gen, idx |-> idx]

Range(s) == {s[i] : i \in 1..Len(s)}

----------------------------------------------------------------------------
(* Configurations *)

\* Candidate lists of length n up to renaming of the unit objects: the same
\* object may appear more than once.
UnitLists(n) ==
    {s \in [1..n -> 1..n] :
        /\ s[1] = 1
        /\ \A i \in 2..n : \E j \in 1..(i - 1) : s[i] <= s[j] + 1}

\* The list given for index k: one port per position.  The port at position i
\* belongs to the i-th candidate ("by_position"), to the candidate k - 1
\* places further ("by_index": a list of one port then names candidate k), or
\* to the next candidate ("rotated").  Positions past the last candidate hold
\* a port of a unit that is no candidate.
Patterns == {"by_position", "by_index", "rotated"}

PortList(units, dir, k, len, pattern) ==
    LET shift == IF pattern = "by_position" THEN 0
                 ELSE IF pattern = "by_index" THEN k - 1 ELSE 1
    IN  [i \in 1..len |->
            UnitPort(IF i <= Len(units)
                        THEN units[((i - 1 + shift) % Len(units)) + 1]
                        ELSE OutsideUnit,
                     dir, k)]

\* unit_disjunct_inlet / unit_disjunct_outlet are dicts keyed 1..K (the keys
\* create_inlet_list / create_outlet_list name the states after), iterated in
\* key order; here a sequence of K lists, each of 0..N+1 ports.
PortDicts(units, dir, K, pattern) ==
    {[k \in 1..K |-> PortList(units, dir, k, l[k], pattern)] :
        l \in [1..K -> 0..(Len(units) + 1)]}

N == Len(config.unit_disjunct)

Kin == Len(config.unit_disjunct_inlet)

Kout == Len(config.unit_disjunct_outlet)

----------------------------------------------------------------------------
(* The selector before build *)

NewSelector ==
    [gen |-> 0,                  \* how many selector_block were created
     branches |-> {},            \* idx with unit_disjunct_<idx> in selector_block
     disjunctions |-> {},        \* the Disjunction components of selector_block
     arcs |-> {},                \* the Arc components of the disjuncts
     inlet_states |-> {},        \* k with inlet_<k>_state on the selector
     outlet_states |-> {},       \* k with outlet_<k>_state on the selector
     inlet_ports |-> {},         \* k with the connector inlet_<k>
     outlet_ports |-> {},        \* k with the connector outlet_<k>
     expanded |-> FALSE,         \* network.expand_arcs was applied
     parent |-> [u \in UnitIds |-> Flowsheet],   \* unit.parent_block()
     val |-> [p \in AllPorts |-> 0],             \* state values behind a port
     err |-> "none"]             \* the exception the last call raised

\* The values of a state block fresh from build_state_block.
FreshValue(k) == k

Raise(m, e) == [m EXCEPT !.err = e]

----------------------------------------------------------------------------
(* build and the methods it calls.  Each takes the selector m and returns    *)
(* it as the method leaves it; m.err names the exception raised, if any.   *)

\* self.selector_block = Block(): a new, empty block under that name; the
\* block that had the name, with all it holds, leaves the selector.
new_selector_block(m) ==
    [m EXCEPT !.gen = @ + 1, !.branches = {}, !.disjunctions = {},
              !.arcs = {}, !.expanded = FALSE]

\* create_unit_disjunct with the Disjunction built over range(1, N): the last
\* disjunct is left out of the selection.
create_unit_disjunct_short(m, cfg) ==
    LET idxs == 1..Len(cfg.unit_disjunct)
    IN  [m EXCEPT
            !.branches = idxs,
            !.disjunctions =
                {[name |-> "unit_disjunction",
                  expr |-> {idx \in idxs : idx < Len(cfg.unit_disjunct)},
                  xor |-> TRUE]}]

\* One Disjunct per idx in RangeSet(len(unit_disjunct)), then one
\* Disjunction over the disjuncts of the same range (xor, Pyomo's default).
create_unit_disjunct(m, cfg) ==
    LET idxs == 1..Len(cfg.unit_disjunct)
        withDisjuncts == [m EXCEPT !.branches = idxs]
    IN  [withDisjuncts EXCEPT
            !.disjunctions =
                {[name |-> "unit_disjunction",
                  expr |-> {idx \in idxs : idx \in withDisjuncts.branches},
                  xor |-> TRUE]}]

\* unit.parent_block().del_component(unit.local_name)
del_unit(m, unit) == [m EXCEPT !.parent[unit] = NoBlock]

\* disjunct_obj.add_component(unit.local_name, unit): Pyomo refuses a
\* component that still has a parent block.  The disjunct is new and gets
\* this one unit only, so the name is free.
add_unit(m, blk, unit) ==
    IF m.parent[unit] # NoBlock
    THEN Raise(m, "RuntimeError")
    ELSE [m EXCEPT !.parent[unit] = blk]

\* The loop body with unit_disjunct_{unit_index} for unit_disjunct_{unit_index+1}.
move_unit_off_by_one(m, unit, i) ==
    IF (i - 1) \notin m.branches \/ m.parent[unit] = NoBlock
    THEN Raise(m, "AttributeError")
    ELSE add_unit(del_unit(m, unit), Disjunct(m.gen, i - 1), unit)

\* The body of the loop of add_units_to_disjunct for unit_index = i - 1.
move_unit(m, unit, i) ==
    IF i \notin m.branches \/ m.parent[unit] = NoBlock
    THEN Raise(m, "AttributeError")
    ELSE add_unit(del_unit(m, unit), Disjunct(m.gen, i), unit)

RECURSIVE move_units_from(_, _, _)
move_units_from(m, units, i) ==
    IF i > Len(units) \/ m.err # "none"
    THEN m
    ELSE move_units_from(move_unit(m, units[i], i), units, i + 1)

add_units_to_disjunct(m, cfg) == move_units_from(m, cfg.unit_disjunct, 1)

\* One state block per name of the port list, set as <name>_state; a state
\* block that had the name is replaced.
add_port_state_block(m, cfg, is_inlet) ==
    IF is_inlet
    THEN LET ks == 1..Len(cfg.unit_disjunct_inlet)
         IN  [m EXCEPT
                !.inlet_states = ks,
                !.val = [p \in AllPorts |->
                            IF p.kind = "selector" /\ p.dir = "inlet"
                            THEN (IF p.k \in ks THEN FreshValue(p.k) ELSE 0)
                            ELSE @[p]]]
    ELSE LET ks == 1..Len(cfg.unit_disjunct_outlet)
         IN  [m EXCEPT
                !.outlet_states = ks,
                !.val = [p \in AllPorts |->
                            IF p.kind = "selector" /\ p.dir = "outlet"
                            THEN (IF p.k \in ks THEN FreshValue(p.k) ELSE 0)
                            ELSE @[p]]]

\* add_port for every name of the port list, only if construct_ports.  On a
\* selector that already has a connector of the name, add_port either
\* replaces it or raises RuntimeError (readd says which).
add_port_objects(m, cfg, is_inlet, readd) ==
    LET ks == IF is_inlet THEN 1..Len(cfg.unit_disjunct_inlet)
                          ELSE 1..Len(cfg.unit_disjunct_outlet)
        had == IF is_inlet THEN m.inlet_ports ELSE m.outlet_ports
    IN  IF cfg.construct_ports = TRUE
        THEN IF (had \cap ks) # {} /\ readd = "raise"
             THEN Raise(m, "RuntimeError")
             ELSE IF is_inlet
                  THEN [m EXCEPT !.inlet_ports = had \cup ks]
                  ELSE [m EXCEPT !.outlet_ports = had \cup ks]
        ELSE m

\* An Arc component of the disjunct `branch`, named <prefix>_<num>.
Arc(branch, dir, num, source, destination) ==
    [branch |-> branch, dir |-> dir, num |-> num,
     source |-> source, destination |-> destination]

HasArc(m, branch, dir, num) ==
    \E a \in m.arcs : a.branch = branch /\ a.dir = dir /\ a.num = num

\* unit_disjunct.add_component(name, arc)
add_arc(m, arc) ==
    IF HasArc(m, arc.branch, arc.dir, arc.num)
    THEN Raise(m, "RuntimeError")
    ELSE [m EXCEPT !.arcs = @ \cup {arc}]

\* The loop over a list of more than one port, from dsj_counter on: the
\* disjunct, then the selector's connector, then the arc in the disjunct.
RECURSIVE inlet_fan_out(_, _, _, _)
inlet_fan_out(m, inlet_idx, unit_inlet_list, dsj_counter) ==
    IF dsj_counter > Len(unit_inlet_list) \/ m.err # "none"
    THEN m
    ELSE IF dsj_counter \notin m.branches \/ inlet_idx \notin m.inlet_ports
    THEN Raise(m, "AttributeError")
    ELSE inlet_fan_out(
            add_arc(m, Arc(dsj_counter, "inlet", dsj_counter,
                           SelectorPort("inlet", inlet_idx),
                           unit_inlet_list[dsj_counter])),
            inlet_idx, unit_inlet_list, dsj_counter + 1)

\* The else branch: the disjunct of the port's own index and element 0.
inlet_single(m, inlet_idx, unit_inlet_list) ==
    IF inlet_idx \notin m.branches \/ inlet_idx \notin m.inlet_ports
    THEN Raise(m, "AttributeError")
    ELSE IF Len(unit_inlet_list) = 0
    THEN Raise(m, "IndexError")
    ELSE add_arc(m, Arc(inlet_idx, "inlet", inlet_idx,
                        SelectorPort("inlet", inlet_idx), unit_inlet_list[1]))

RECURSIVE inlet_items_from(_, _, _)
inlet_items_from(m, items, inlet_idx) ==
    IF inlet_idx > Len(items) \/ m.err # "none"
    THEN m
    ELSE inlet_items_from(
            IF Len(items[inlet_idx]) > 1
            THEN inlet_fan_out(m, inlet_idx, items[inlet_idx], 1)
            ELSE inlet_single(m, inlet_idx, items[inlet_idx]),
            items, inlet_idx + 1)

arc_selector_inlet_to_unit(m, cfg) ==
    inlet_items_from(m, cfg.unit_disjunct_inlet, 1)

RECURSIVE outlet_fan_in(_, _, _, _)
outlet_fan_in(m, outlet_idx, unit_outlet_list, dsj_counter) ==
    IF dsj_counter > Len(unit_outlet_list) \/ m.err # "none"
    THEN m
    ELSE IF dsj_counter \notin m.branches \/ outlet_idx \notin m.outlet_ports
    THEN Raise(m, "AttributeError")
    ELSE outlet_fan_in(
            add_arc(m, Arc(dsj_counter, "outlet", dsj_counter,
                           unit_outlet_list[dsj_counter],
                           SelectorPort("outlet", outlet_idx))),
            outlet_idx, unit_outlet_list, dsj_counter + 1)

outlet_single(m, outlet_idx, unit_outlet_list) ==
    IF outlet_idx \notin m.branches \/ outlet_idx \notin m.outlet_ports
    THEN Raise(m, "AttributeError")
    ELSE IF Len(unit_outlet_list) = 0
    THEN Raise(m, "IndexError")
    ELSE add_arc(m, Arc(outlet_idx, "outlet", outlet_idx,
                        unit_outlet_list[1], SelectorPort("outlet", outlet_idx)))

RECURSIVE outlet_items_from(_, _, _)
outlet_items_from(m, items, outlet_idx) ==
    IF outlet_idx > Len(items) \/ m.err # "none"
    THEN m
    ELSE outlet_items_from(
            IF Len(items[outlet_idx]) > 1
            THEN outlet_fan_in(m, outlet_idx, items[outlet_idx], 1)
            ELSE outlet_single(m, outlet_idx, items[outlet_idx]),
            items, outlet_idx + 1)

arc_unit_outlet_to_selector(m, cfg) ==
    outlet_items_from(m, cfg.unit_disjunct_outlet, 1)

\* TransformationFactory("network.expand_arcs").apply_to(self)
expand_arcs(m) == [m EXCEPT !.expanded = TRUE]

\* A method call inside build: skipped once an exception is under way.
Then(m, next) == IF m.err # "none" THEN m ELSE next

\* build.  super().build() changes nothing modelled here: CONFIG admits
\* dynamic = False and has_holdup = False only.
build(m, cfg, readd) ==
    LET m0 == Raise(m, "none")
        m1 == new_selector_block(m0)
        m2 == Then(m1, create_unit_disjunct(m1, cfg))
        m3 == Then(m2, add_units_to_disjunct(m2, cfg))
        m4 == Then(m3, add_port_state_block(m3, cfg, TRUE))
        m5 == Then(m4, add_port_state_block(m4, cfg, FALSE))
        m6 == Then(m5, add_port_objects(m5, cfg, TRUE, readd))
        m7 == Then(m6, add_port_objects(m6, cfg, FALSE, readd))
        m8 == Then(m7, arc_selector_inlet_to_unit(m7, cfg))
        m9 == Then(m8, arc_unit_outlet_to_selector(m8, cfg))
    IN  Then(m9, expand_arcs(m9))

----------------------------------------------------------------------------
(* initialize *)

Event(ev, branch, unit, source, destination, raised) ==
    [ev |-> ev, branch |-> branch, unit |-> unit, source |-> source,
     destination |-> destination, raised |-> raised]

NoPort == [kind |-> "none", of |-> 0, dir |-> "none", k |-> 0]

\* getattr(disjunct_block, name) for the name of an arc
ArcNamed(m, branch, dir, num) ==
    CHOOSE a \in m.arcs : a.branch = branch /\ a.dir = dir /\ a.num = num

\* idaes.core.util.initialization.propagate_state(arc), direction forward:
\* the values behind the source port are copied to the destination port.
propagate_state(m, arc) ==
    [m EXCEPT !.val[arc.destination] = m.val[arc.source]]

\* Lines 310-317 for idx = unit_index + 1: the disjunct, the unit in it, the
\* inlet arc by its name, then propagate_state along that arc.  r holds the
\* selector (r.m) and the log (r.log).
seed_unit_inlet(r, cfg, idx) ==
    LET m == r.m
        unit == cfg.unit_disjunct[idx]
    IN  IF idx \notin m.branches
        THEN [r EXCEPT !.m = Raise(m, "AttributeError")]
        ELSE IF m.parent[unit] # Disjunct(m.gen, idx)
        THEN [m |-> Raise(m, "AttributeError"),
              log |-> Append(r.log,
                        Event("missing_unit", idx, unit, NoPort, NoPort, FALSE))]
        ELSE IF ~HasArc(m, idx, "inlet", idx)
        THEN [m |-> Raise(m, "AttributeError"),
              log |-> Append(r.log,
                        Event("missing_inlet_arc", idx, unit, NoPort, NoPort, FALSE))]
        ELSE LET inlet_arc == ArcNamed(m, idx, "inlet", idx)
             IN  [m |-> propagate_state(m, inlet_arc),
                  log |-> Append(r.log,
                            Event("propagate", idx, unit, inlet_arc.source,
                                  inlet_arc.destination, FALSE))]

\* The unit's initialize inside a try that swallows InitializationError.
call_unit_initialize_swallowed(r, cfg, idx, fails) ==
    [m |-> r.m,
     log |-> Append(r.log,
                Event("initialize", idx, cfg.unit_disjunct[idx],
                      NoPort, NoPort, fails[idx]))]

\* unit_block.initialize(**kwargs): fails[idx] says whether the unit's own
\* initialize raises InitializationError; nothing here catches it.
call_unit_initialize(r, cfg, idx, fails) ==
    [m |-> IF fails[idx] THEN Raise(r.m, "InitializationError") ELSE r.m,
     log |-> Append(r.log,
                Event("initialize", idx, cfg.unit_disjunct[idx],
                      NoPort, NoPort, fails[idx]))]

\* The outlet arc looked up and then given to propagate_state as well.
find_outlet_arc_propagating(r, cfg, idx) ==
    IF ~HasArc(r.m, idx, "outlet", idx)
    THEN [m |-> Raise(r.m, "AttributeError"),
          log |-> Append(r.log,
                    Event("missing_outlet_arc", idx, cfg.unit_disjunct[idx],
                          NoPort, NoPort, FALSE))]
    ELSE [r EXCEPT !.m = propagate_state(r.m, ArcNamed(r.m, idx, "outlet", idx))]

\* Line 322: the outlet arc by its name; it is looked up and printed only.
find_outlet_arc(r, cfg, idx) ==
    IF ~HasArc(r.m, idx, "outlet", idx)
    THEN [m |-> Raise(r.m, "AttributeError"),
          log |-> Append(r.log,
                    Event("missing_outlet_arc", idx, cfg.unit_disjunct[idx],
                          NoPort, NoPort, FALSE))]
    ELSE r

\* A statement of the loop body: skipped once an exception is under way.
ThenR(r, next) == IF r.m.err # "none" THEN r ELSE next

\* One pass of the loop of initialize.
initialize_unit(r, cfg, idx, fails) ==
    LET r1 == seed_unit_inlet(r, cfg, idx)
        r2 == ThenR(r1, call_unit_initialize(r1, cfg, idx, fails))
    IN  ThenR(r2, find_outlet_arc(r2, cfg, idx))

RECURSIVE initialize_from(_, _, _, _)
initialize_from(r, cfg, idx, fails) ==
    IF idx > Len(cfg.unit_disjunct) \/ r.m.err # "none"
    THEN r
    ELSE initialize_from(initialize_unit(r, cfg, idx, fails), cfg, idx + 1, fails)

initialize(m, cfg, fails) ==
    initialize_from([m |-> Raise(m, "none"), log |-> <<>>], cfg, 1, fails)

----------------------------------------------------------------------------
(* The state machine *)

\* The configurations: 1..MaxN candidates, up to MaxK inlet and outlet
\* indices with lists of 0..N+1 ports each; at most one of the two directions
\* declares more than one index.  unit_source and unit_sink are units with a
\* property package, so add_port_state_block does not fail.
Init ==
    /\ \E n \in 1..MaxN : \E us \in UnitLists(n) :
       \E rot \in Patterns : \E Ki \in 0..MaxK : \E Ko \in 0..MaxK :
         /\ Ki <= 1 \/ Ko <= 1
         /\ \E din \in PortDicts(us, "inlet", Ki, rot) :
            \E dout \in PortDicts(us, "outlet", Ko, rot) :
            \E cp \in BOOLEAN :
              config = [unit_disjunct |-> us,
                        unit_disjunct_inlet |-> din,
                        unit_disjunct_outlet |-> dout,
                        construct_ports |-> cp]
    /\ sel = NewSelector
    /\ phase = "new"
    /\ builds = 0
    /\ log = <<>>

\* A call of build: the one made at construction, or a later one on a
\* selector that was built.
Build ==
    /\ phase \in {"new", "built", "initialized"}
    /\ builds < MaxBuilds
    /\ \E readd \in {"replace", "raise"} :
         sel' = build(sel, config, readd)
    /\ phase' = IF sel'.err = "none" THEN "built" ELSE "build_failed"
    /\ builds' = builds + 1
    /\ UNCHANGED <<config, log>>

\* A call of initialize on a built selector.
Initialize ==
    /\ phase = "built"
    /\ \E fails \in [1..N -> BOOLEAN] :
         LET r == initialize(sel, config, fails)
         IN  /\ sel' = r.m
             /\ log' = r.log
    /\ phase' = IF sel'.err = "none" THEN "initialized" ELSE "init_failed"
    /\ UNCHANGED <<config, builds>>

Next == Build \/ Initialize

Spec == Init /\ [][Next]_vars

----------------------------------------------------------------------------
(* What the claims speak of *)

Candidates == Range(config.unit_disjunct)

\* A set of active disjuncts satisfies a Disjunction with xor iff exactly one
\* of the disjuncts it names is active.
Feasible(active) ==
    \A d \in sel.disjunctions :
        IF d.xor THEN Cardinality(d.expr \cap active) = 1
                 ELSE Cardinality(d.expr \cap active) >= 1

PortLists(dir) ==
    IF dir = "inlet" THEN config.unit_disjunct_inlet
                     ELSE config.unit_disjunct_outlet

\* The arcs of direction dir that have the selector's port k at one end.
EdgesOf(dir, k) ==
    {a \in sel.arcs :
        /\ a.dir = dir
        /\ SelectorPort(dir, k) = (IF dir = "inlet" THEN a.source ELSE a.destination)}

\* The port list of index k is wired branch by branch, in list order.
WiredInOrder(dir, k) ==
    LET L == PortLists(dir)[k]
    IN  /\ Cardinality(EdgesOf(dir, k)) = Len(L)
        /\ \A i \in 1..Len(L) :
              \E a \in EdgesOf(dir, k) :
                 /\ a.branch = i
                 /\ (IF dir = "inlet" THEN a.destination ELSE a.source) = L[i]

\* Every list of the direction has n ports.
AllOfLength(dir, n) ==
    \A k \in 1..Len(PortLists(dir)) : Len(PortLists(dir)[k]) = n

\* A direction the documented mapping covers without a clash of names: no
\* index, one index with a port per branch, or lists of one port for
\* indices that are branches.
Mappable(dir) ==
    \/ Len(PortLists(dir)) = 0
    \/ Len(PortLists(dir)) = 1 /\ AllOfLength(dir, N)
    \/ Len(PortLists(dir)) <= N /\ AllOfLength(dir, 1)

InitEvents == SelectSeq(log, LAMBDA e : e.ev = "initialize")

Owned(i) == {u \in Candidates : sel.parent[u] = Disjunct(sel.gen, i)}

\* Every inlet arc ends at a port of the unit that sits in the arc's branch.
WellWired ==
    \A a \in sel.arcs :
        a.dir = "inlet" =>
            sel.parent[a.destination.of] = Disjunct(sel.gen, a.branch)

InitializeCall == phase = "built" /\ phase' \in {"initialized", "init_failed"}

----------------------------------------------------------------------------
(* The claims *)

\* C1: once build has run for N >= 1 candidates there are exactly the
\* branches 1..N and exactly one selection constraint, which names all N
\* branches and no other, so a set of active branches is feasible iff it
\* holds exactly one branch.
C1_BranchesAndSelection ==
    builds >= 1 =>
        /\ sel.branches = 1..N
        /\ Cardinality(sel.disjunctions) = 1
        /\ \A d \in sel.disjunctions : d.expr = 1..N
        /\ \A active \in SUBSET sel.branches :
              Feasible(active) <=> Cardinality(active) = 1

C1_Witness ==
    /\ phase = "built"
    /\ N >= 2
    /\ sel.branches = 1..N

\* C2: when connectors are constructed and every declared list has one port
\* per branch (N > 1), build leaves, for every declared inlet and outlet
\* index k, exactly N arcs at the selector's port k, the i-th in branch i and
\* linking the port to the i-th element of the list.
C2_FanOutPerIndex ==
    (/\ builds = 1
     /\ N > 1
     /\ config.construct_ports
     /\ AllOfLength("inlet", N)
     /\ AllOfLength("outlet", N)) =>
        \A dir \in Directions : \A k \in 1..Len(PortLists(dir)) :
            WiredInOrder(dir, k)

\* C3: a list whose length is neither 1 nor N makes build fail with
\* ConfigurationError, with no arc created in any branch.
C3_BadLengthRejected ==
    (/\ builds = 1
     /\ config.construct_ports
     /\ \E dir \in Directions : \E k \in 1..Len(PortLists(dir)) :
            Len(PortLists(dir)[k]) \notin {1, N}) =>
        /\ phase = "build_failed"
        /\ sel.err = "ConfigurationError"
        /\ sel.arcs = {}

\* C4: the calls of the candidates' initialize are made for the branches
\* 1, 2, ... in this order; an initialize that completes has called every
\* candidate's initialize exactly once; a candidate that raises
\* InitializationError is the last one called and the caller gets that error.
C4_InitializeOrder ==
    /\ \A j \in 1..Len(InitEvents) :
          /\ InitEvents[j].branch = j
          /\ InitEvents[j].unit = config.unit_disjunct[j]
          /\ InitEvents[j].raised =>
                /\ j = Len(InitEvents)
                /\ phase = "init_failed"
                /\ sel.err = "InitializationError"
    /\ phase = "initialized" =>
          /\ Len(InitEvents) = N
          /\ \A u \in Candidates :
                Cardinality({j \in 1..Len(InitEvents) : InitEvents[j].unit = u}) = 1

C4_Witness ==
    /\ phase = "init_failed"
    /\ N >= 3
    /\ Len(InitEvents) = 2
    /\ InitEvents[2].raised

\* C5: when the port lists are mappable, the first build completes for both
\* values of construct_ports, with one state block per declared inlet and
\* outlet index, and with the connectors inlet_<k> / outlet_<k> iff
\* construct_ports.
C5_PortsForBothFlags ==
    (builds = 1 /\ Mappable("inlet") /\ Mappable("outlet")) =>
        /\ phase # "build_failed"
        /\ sel.inlet_states = 1..Kin
        /\ sel.outlet_states = 1..Kout
        /\ sel.inlet_ports = (IF config.construct_ports THEN 1..Kin ELSE {})
        /\ sel.outlet_ports = (IF config.construct_ports THEN 1..Kout ELSE {})

\* C6: inlet lists of one port each that leave a branch without an inlet arc
\* make build fail with ConfigurationError.
C6_UnmappedBranchRejected ==
    (/\ builds = 1
     /\ config.construct_ports
     /\ Kin >= 1
     /\ Kin < N
     /\ AllOfLength("inlet", 1)
     /\ Mappable("outlet")) =>
        /\ phase = "build_failed"
        /\ sel.err = "ConfigurationError"

\* C7: a call of build on a built selector fails with ConfigurationError or
\* BurntToast and leaves the branches and the owner of every candidate as
\* they were.
C7_SecondBuildRejected ==
    [][(builds >= 1 /\ builds' = builds + 1) =>
          /\ sel'.err \in {"ConfigurationError", "BurntToast"}
          /\ sel'.gen = sel.gen
          /\ sel'.branches = sel.branches
          /\ sel'.parent = sel.parent]_vars

\* C8: an initialize that does not find the inlet arc or the outlet arc of a
\* branch under its name fails with BurntToast.
C8_MissingEdgeIsBurntToast ==
    (/\ phase = "init_failed"
     /\ Len(log) >= 1
     /\ log[Len(log)].ev \in {"missing_inlet_arc", "missing_outlet_arc"}) =>
        sel.err = "BurntToast"

\* C9 as stated: after build, whatever the candidate list, every branch owns
\* exactly one candidate and every candidate sits in a branch of the
\* selector, none in the block that owned it before.
C9_OwnershipAnyList ==
    builds >= 1 =>
        /\ \A i \in 1..N : Cardinality(Owned(i)) = 1
        /\ \A u \in Candidates :
              /\ \E i \in sel.branches : sel.parent[u] = Disjunct(sel.gen, i)
              /\ sel.parent[u] # Flowsheet

\* C9 amended: the same for candidate lists of pairwise different units.
C9_OwnershipDistinctUnits ==
    (builds >= 1 /\ Cardinality(Candidates) = N) =>
        /\ \A i \in 1..N : Owned(i) = {config.unit_disjunct[i]}
        /\ \A u \in Candidates :
              /\ \E i \in sel.branches : sel.parent[u] = Disjunct(sel.gen, i)
              /\ sel.parent[u] # Flowsheet
              /\ sel.gen > 1 => \A i \in 1..N : sel.parent[u] # Disjunct(sel.gen - 1, i)

C9_Witness ==
    /\ phase = "built"
    /\ N >= 2
    /\ Cardinality(Candidates) = N
    /\ \A i \in 1..N : Owned(i) = {config.unit_disjunct[i]}

\* What C10 says of one call of initialize, but for where the copies land:
\* no value behind a selector port changes; every copy goes from an inlet
\* port of the selector to a port of a unit and is followed at once by the
\* initialize of the unit of the same branch, and no unit's initialize is
\* called without that copy right before it.
InitializeCopiesForward ==
    /\ \A p \in AllPorts : p.kind = "selector" => sel'.val[p] = sel.val[p]
    /\ \A j \in 1..Len(log') :
          /\ log'[j].ev = "propagate" =>
                /\ log'[j].source.kind = "selector"
                /\ log'[j].source.dir = "inlet"
                /\ log'[j].destination.kind = "unit"
                /\ j < Len(log')
                /\ log'[j + 1].ev = "initialize"
                /\ log'[j + 1].branch = log'[j].branch
          /\ log'[j].ev = "initialize" =>
                /\ j > 1
                /\ log'[j - 1].ev = "propagate"
                /\ log'[j - 1].branch = log'[j].branch

\* Every value that changed lies in a unit of a branch the call has visited.
WritesStayInVisitedBranches ==
    \A p \in AllPorts :
        sel'.val[p] # sel.val[p] =>
            \E j \in 1..Len(log') :
                sel.parent[p.of] = Disjunct(sel.gen, log'[j].branch)

\* C10 as stated: initialize changes no selector port state, copies only
\* from an inlet selector port into the visited branch's candidate before
\* that candidate's initialize, and writes nothing into a branch it has not
\* visited yet.
C10_InitializeFrame ==
    [][InitializeCall =>
          InitializeCopiesForward /\ WritesStayInVisitedBranches]_vars

\* C10 amended: the same, the last part for selectors whose inlet arcs all
\* end at a port of the candidate of their own branch.
C10_InitializeFrameWellWired ==
    [][InitializeCall =>
          /\ InitializeCopiesForward
          /\ WellWired => WritesStayInVisitedBranches]_vars

C10_Witness ==
    /\ phase = "initialized"
    /\ N >= 2
    /\ WellWired
    /\ \A i \in 1..N :
          \E p \in AllPorts :
             p.kind = "unit" /\ p.of = config.unit_disjunct[i] /\ sel.val[p] # 0

====
